---------------------------- MODULE Spec2Model ----------------------------
(***************************************************************************)
(* A model of multi_sg's src/fastapi_app.py: the DOI canonicaliser         *)
(* _norm_doi, the Crossref date synthesis ymd, and the two request         *)
(* handlers search and search_compact with their upstream calls, the       *)
(* aggregation, the de-duplication pass and the final sort.                *)
(*                                                                         *)
(* Python values.  A str is a TLA+ string over printable ASCII.  An        *)
(* optional value is a sequence: None is <<>>, the str s is <<s>>, the     *)
(* int n is <<"int", n>>.  A list is a sequence, a dict is a record.       *)
(* Upstream bodies with status 200 are taken to be well-formed JSON / XML, *)
(* and only the fields that _norm_doi, the de-duplication and the sort     *)
(* read (doi, url, date, source) are carried in a compact record; title,   *)
(* journal and oa are copied through by the code and never read again.     *)
(***************************************************************************)
EXTENDS Integers, Sequences, FiniteSets, TLC

VARIABLES
    SPRINGER,    \* the module-level API key read from the environment
    req,         \* the request being served: endpoint and source selector
    pc,          \* the handler's position: the next upstream leg, or "done"
    calls,       \* the upstream calls issued so far, with their status codes
    agg,         \* search_compact: the aggregated compact records
    out,         \* search: the dict of raw payloads built for source=all
    ids,         \* the idlist of the PubMed esearch response
    resp,        \* the response of the handler, None while it runs
    fn_pc,       \* position of the pure-function harnesses
    norm_in,     \* _norm_doi: the raw DOI of a provider item
    norm_once,   \* _norm_doi applied by an extractor
    norm_twice,  \* _norm_doi applied again by the de-duplication pass
    ymd_in,      \* ymd: a Crossref item
    ymd_out      \* ymd: the date it synthesises

vars == <<SPRINGER, req, pc, calls, agg, out, ids, resp,
          fn_pc, norm_in, norm_once, norm_twice, ymd_in, ymd_out>>

reqVars == <<SPRINGER, req, pc, calls, agg, out, ids, resp>>
fnVars == <<fn_pc, norm_in, norm_once, norm_twice, ymd_in, ymd_out>>

---------------------------------------------------------------------------
\* Bounds of the model.

\* raw DOIs are built from at most this many pieces
MaxPieces == 3
\* a date-parts entry has at most this many components
MaxParts == 3
\* one request aggregates at most this many provider items over all legs
MaxAgg == 3
\* the PubMed esearch idlist has at most this many identifiers
MaxIds == 1

---------------------------------------------------------------------------
\* Python values and str methods.

None == <<>>
Str(s) == <<s>>
PyInt(n) == <<"int", n>>
IsStr(v) == Len(v) = 1
IsInt(v) == Len(v) = 2

\* truthiness of an optional str or int: None, "" and 0 are falsy
Truthy(v) == /\ v # None
             /\ IsStr(v) => v[1] # ""
             /\ IsInt(v) => v[2] # 0

\* printable ASCII in code-point order: codes 32..95 and 97..126
ASCII_LO == " !\"#$%&'()*+,-./0123456789:;<=>?@ABCDEFGHIJKLMNOPQRSTUVWXYZ[\\]^_"
ASCII_HI == "abcdefghijklmnopqrstuvwxyz{|}~"

Chr(s, i) == SubSeq(s, i, i)

\* ord() of a one-character string
Ord == [c \in {Chr(ASCII_LO, i) : i \in 1..Len(ASCII_LO)}
              \cup {Chr(ASCII_HI, i) : i \in 1..Len(ASCII_HI)} |->
          IF \E i \in 1..Len(ASCII_LO) : Chr(ASCII_LO, i) = c
          THEN 31 + (CHOOSE i \in 1..Len(ASCII_LO) : Chr(ASCII_LO, i) = c)
          ELSE 96 + (CHOOSE i \in 1..Len(ASCII_HI) : Chr(ASCII_HI, i) = c)]

\* c.lower(): the letters A..Z (65..90) move up by 32
LowerChar == [c \in DOMAIN Ord |->
                IF Ord[c] >= 65 /\ Ord[c] <= 90
                THEN Chr(ASCII_HI, Ord[c] + 32 - 96) ELSE c]

RECURSIVE lower(_)
lower(s) == IF s = "" THEN "" ELSE LowerChar[Chr(s, 1)] \o lower(Tail(s))

IsSpace(c) == c = " "

RECURSIVE lstrip(_)
lstrip(s) == IF s # "" /\ IsSpace(Chr(s, 1)) THEN lstrip(Tail(s)) ELSE s

RECURSIVE rstrip(_)
rstrip(s) == IF s # "" /\ IsSpace(Chr(s, Len(s)))
             THEN rstrip(SubSeq(s, 1, Len(s) - 1)) ELSE s

strip(s) == rstrip(lstrip(s))

\* s.replace(old, ""): every non-overlapping occurrence of old, found left to right
RECURSIVE replace(_, _)
replace(s, old) ==
    IF Len(s) < Len(old) THEN s
    ELSE IF SubSeq(s, 1, Len(old)) = old
         THEN replace(SubSeq(s, Len(old) + 1, Len(s)), old)
         ELSE Chr(s, 1) \o replace(Tail(s), old)

\* str(n) of a non-negative int
RECURSIVE str(_)
str(n) == IF n < 10 THEN Chr("0123456789", n + 1)
          ELSE str(n \div 10) \o Chr("0123456789", (n % 10) + 1)

\* a < b for str: code-point lexicographic order
RECURSIVE StrLess(_, _)
StrLess(a, b) ==
    IF b = "" THEN FALSE
    ELSE IF a = "" THEN TRUE
    ELSE IF Chr(a, 1) = Chr(b, 1) THEN StrLess(Tail(a), Tail(b))
    ELSE Ord[Chr(a, 1)] < Ord[Chr(b, 1)]

---------------------------------------------------------------------------
\* _norm_doi

\* only a leading prefix is cut
norm_doi_prefix_only(doi) ==
    IF ~Truthy(doi) THEN None
    ELSE LET s == lower(strip(doi[1]))
             cut(t, p) == IF Len(t) >= Len(p) /\ SubSeq(t, 1, Len(p)) = p
                          THEN SubSeq(t, Len(p) + 1, Len(t)) ELSE t
         IN  Str(cut(cut(s, "https://doi.org/"), "http://doi.org/"))

_norm_doi(doi) ==
    IF ~Truthy(doi) THEN None
    ELSE Str(replace(replace(lower(strip(doi[1])), "https://doi.org/"), "http://doi.org/"))

---------------------------------------------------------------------------
\* The raw DOIs fed to _norm_doi.

Pieces == {" ", "https://doi.org/", "http://doi.org/", "HTTPS://DOI.ORG/",
           "10.1/A", "x", "http", "s://doi.org/"}

RECURSIVE Concats(_)
Concats(n) == IF n = 0 THEN {""} ELSE {p \o s : p \in Pieces, s \in Concats(n - 1)}

DoiInputs == {None} \cup {Str(s) : s \in UNION {Concats(n) : n \in 0..MaxPieces}}

InitIdleReq ==
    /\ SPRINGER = None
    /\ req = None
    /\ pc = "idle"
    /\ calls = <<>>
    /\ agg = <<>>
    /\ out = <<>>
    /\ ids = <<>>
    /\ resp = None

InitNorm ==
    /\ InitIdleReq
    /\ fn_pc = "call"
    /\ norm_in \in DoiInputs
    /\ norm_once = None
    /\ norm_twice = None
    /\ ymd_in = None
    /\ ymd_out = None

\* an extractor canonicalises the provider's DOI
ExtractDoi ==
    /\ fn_pc = "call"
    /\ norm_once' = _norm_doi(norm_in)
    /\ fn_pc' = "extracted"
    /\ UNCHANGED <<norm_in, norm_twice, ymd_in, ymd_out>>
    /\ UNCHANGED reqVars

\* the de-duplication pass canonicalises the record's doi again
RekeyDoi ==
    /\ fn_pc = "extracted"
    /\ norm_twice' = _norm_doi(norm_once)
    /\ fn_pc' = "rekeyed"
    /\ UNCHANGED <<norm_in, norm_once, ymd_in, ymd_out>>
    /\ UNCHANGED reqVars

NextNorm == ExtractDoi \/ RekeyDoi

SpecNorm == InitNorm /\ [][NextNorm]_vars

\* C4: _norm_doi is idempotent, _norm_doi(_norm_doi(x)) = _norm_doi(x) for
\* every input x, and _norm_doi(None) is None.
C4_Idempotent ==
    /\ (fn_pc # "call" /\ norm_in = None) => norm_once = None
    /\ fn_pc = "rekeyed" => norm_twice = norm_once

\* The reference C6 states: the prefix is matched exactly, case-sensitively,
\* on the trimmed input, only at its start, and the rest is lower-cased.
ClaimedNorm(doi) ==
    IF ~Truthy(doi) THEN None
    ELSE LET t == strip(doi[1])
             cut(u, p) == IF Len(u) >= Len(p) /\ SubSeq(u, 1, Len(p)) = p
                          THEN SubSeq(u, Len(p) + 1, Len(u)) ELSE u
         IN  Str(lower(IF cut(t, "https://doi.org/") # t
                       THEN cut(t, "https://doi.org/")
                       ELSE cut(t, "http://doi.org/")))

\* C6 as stated: _norm_doi agrees with that reference on every input.
C6_AsClaimed == fn_pc # "call" => norm_once = ClaimedNorm(norm_in)

DoiPrefixes == {"https://doi.org/", "http://doi.org/"}

Occurs(p, s) == \E i \in 1..(Len(s) - Len(p) + 1) : SubSeq(s, i, i + Len(p) - 1) = p

NoPrefixIn(s) == \A p \in DoiPrefixes : ~Occurs(p, s)

\* s with the Len(p) characters after position i removed
Without(s, i, p) == SubSeq(s, 1, i) \o SubSeq(s, i + Len(p) + 1, Len(s))

\* C6 amended: None and "" give None; otherwise, with s the input trimmed
\* and lower-cased, the result is s when s holds neither literal, and s with
\* the literal removed when s holds one occurrence of a literal, at the start
\* or anywhere else, whose removal leaves neither literal.  The match is made
\* after lower-casing, so a prefix in any letter case is removed.
C6_NormDoi ==
    fn_pc # "call" =>
        IF ~Truthy(norm_in) THEN norm_once = None
        ELSE LET s == lower(strip(norm_in[1]))
             IN  /\ IsStr(norm_once)
                 /\ NoPrefixIn(s) => norm_once[1] = s
                 /\ \A p \in DoiPrefixes : \A i \in 0..(Len(s) - Len(p)) :
                        (SubSeq(s, i + 1, i + Len(p)) = p /\ NoPrefixIn(Without(s, i, p)))
                            => norm_once[1] = Without(s, i, p)

\* an upper-case prefix has been removed, and so has a literal in the middle
C6_Witness ==
    /\ fn_pc = "rekeyed"
    /\ norm_in = Str("HTTPS://DOI.ORG/10.1/A")
    /\ norm_once = Str("10.1/a")

---------------------------------------------------------------------------
\* ymd, the date synthesis of _compact_crossref.  A Crossref item is a dict
\* (a record); its key "issued" may be missing, null, or a dict whose key
\* "date-parts" may be missing, null, or a list of entries.  The code calls
\* .get on the value of "issued", so null and the empty dict differ there:
\* that value is None for null and <<d>> for the dict d, <<<<>>>> for {}.
\* For date-parts the empty list and None are both <<>>: the code tests
\* only their truthiness.

\* sep.join(parts) for a list of str
RECURSIVE join(_, _)
join(sep, parts) ==
    IF parts = <<>> THEN ""
    ELSE IF Len(parts) = 1 THEN parts[1]
    ELSE parts[1] \o sep \o join(sep, Tail(parts))

\* [str(i) for i in dp if i is not None]
RECURSIVE StrOfNonNull(_)
StrOfNonNull(dp) ==
    IF dp = <<>> THEN <<>>
    ELSE IF dp[1] = None THEN StrOfNonNull(Tail(dp))
    ELSE <<str(dp[1][2])>> \o StrOfNonNull(Tail(dp))

\* an exception raised instead of a value returned
Raise(e) == <<"raise", e>>
IsRaise(v) == Len(v) = 2 /\ v[1] = "raise"

\* the dict d as the value of a key that may also hold null
Dict(d) == <<d>>

ymd(it) ==
    IF "issued" \in DOMAIN it /\ it.issued = None
    THEN Raise("AttributeError")
    ELSE LET issued == IF "issued" \in DOMAIN it THEN it.issued[1] ELSE <<>>
             parts == IF "date-parts" \in DOMAIN issued THEN issued["date-parts"] ELSE None
             dp == (IF parts # <<>> THEN parts ELSE <<<<None>>>>)[1]
         IN  IF dp # <<>> THEN Str(join("-", StrOfNonNull(dp))) ELSE None

\* The Crossref items fed to ymd.
Components == {None, PyInt(2021), PyInt(3), PyInt(15)}

RECURSIVE SeqsUpTo(_, _)
SeqsUpTo(S, n) ==
    IF n = 0 THEN {<<>>}
    ELSE SeqsUpTo(S, n - 1) \cup {Append(q, x) : q \in {t \in SeqsUpTo(S, n - 1) : Len(t) = n - 1}, x \in S}

Entries == SeqsUpTo(Components, MaxParts)

DatePartsLists == {None} \cup {<<e>> : e \in Entries} \cup {<<e, <<PyInt(1999)>>>> : e \in Entries}

DateTime == "date-time" :> Str("2021-03-15T00:00:00Z")

IssuedValues ==
    {None, Dict(<<>>), Dict(DateTime)}
        \cup {Dict(("date-parts" :> d) @@ DateTime) : d \in DatePartsLists}

YmdInputs == {[DOI |-> None]} \cup {[DOI |-> None, issued |-> i] : i \in IssuedValues}

InitYmd ==
    /\ InitIdleReq
    /\ fn_pc = "ymd_call"
    /\ ymd_in \in YmdInputs
    /\ ymd_out = None
    /\ norm_in = None
    /\ norm_once = None
    /\ norm_twice = None

\* _compact_crossref synthesises the date of one item
CallYmd ==
    /\ fn_pc = "ymd_call"
    /\ ymd_out' = ymd(ymd_in)
    /\ fn_pc' = "ymd_done"
    /\ UNCHANGED <<norm_in, norm_once, norm_twice, ymd_in>>
    /\ UNCHANGED reqVars

NextYmd == CallYmd

SpecYmd == InitYmd /\ [][NextYmd]_vars

\* the first date-parts entry of an item, None when there is none
FirstEntry(it) ==
    IF "issued" \in DOMAIN it /\ it.issued # None /\ "date-parts" \in DOMAIN it.issued[1]
       /\ it.issued[1]["date-parts"] # <<>>
    THEN <<it.issued[1]["date-parts"][1]>>
    ELSE None

\* C7: the date is the non-null components of the first date-parts entry
\* joined with "-", and it is None when that entry is empty or when
\* issued / date-parts is absent.
C7_AsClaimed ==
    (fn_pc = "ymd_done" /\ ~IsRaise(ymd_out)) =>
        LET e == FirstEntry(ymd_in)
        IN  IF e = None \/ e[1] = <<>> THEN ymd_out = None
            ELSE ymd_out = Str(join("-", StrOfNonNull(e[1])))

---------------------------------------------------------------------------
\* The providers' items, with the fields the extractors read for doi, url
\* and date.  A missing key and a null value read the same through .get().

SpringerItems == {
    [doi |-> Str("10.1/A"), url |-> <<[value |-> Str("HTTP://X.org/Paper ")]>>,
     publicationDate |-> Str("2021-03-15"), onlineDate |-> None],
    [doi |-> None, url |-> <<[value |-> Str("HTTP://X.org/Paper ")]>>,
     publicationDate |-> None, onlineDate |-> Str("2020-01-02")],
    [doi |-> Str(" "), url |-> None,
     publicationDate |-> Str("2019"), onlineDate |-> None] }

Issued(dp) == Dict("date-parts" :> <<dp>>)

CrossrefItems == {
    [DOI |-> Str("https://doi.org/10.1/A"), URL |-> Str("http://x.org/paper"),
     issued |-> Issued(<<PyInt(2021), PyInt(3), PyInt(15)>>)],
    [DOI |-> None, URL |-> Str("http://x.org/paper")],
    [DOI |-> Str("10.2/b"), URL |-> None, issued |-> Issued(<<PyInt(2020)>>)],
    [DOI |-> Str("https://doi.org/ 10.1/a"), URL |-> Str(""),
     issued |-> Issued(<<PyInt(2020), PyInt(5)>>)],
    [DOI |-> Str("10.5/e"), URL |-> Str("u"), issued |-> None],
    [DOI |-> Str("10.7/g"), URL |-> Str("u"), issued |-> Dict(<<>>)] }

DoajItems == {
    [bibjson |-> [identifier |-> <<[type |-> "doi", id |-> Str("10.1/a")]>>,
                  link |-> <<[url |-> Str("http://y.org/")]>>, year |-> Str("2020")]],
    [bibjson |-> [identifier |-> <<>>, link |-> <<>>, year |-> None]],
    [bibjson |-> [identifier |-> <<[type |-> "doi", id |-> Str("10.2/b")],
                                   [type |-> "eissn", id |-> Str("1234-5678")],
                                   [type |-> "doi", id |-> Str("10.3/c")]>>,
                  link |-> <<[url |-> Str(" ")]>>, year |-> Str("2020")]] }

OpenalexItems == {
    [ids |-> [doi |-> Str("https://doi.org/10.1/a"), openalex |-> Str("https://openalex.org/W1")],
     primary_location |-> None, publication_year |-> PyInt(2020)],
    [ids |-> [doi |-> None, openalex |-> None],
     primary_location |-> [landing_page_url |-> Str("http://x.org/paper"), pdf_url |-> None],
     publication_year |-> PyInt(2019)],
    [ids |-> None, primary_location |-> None, publication_year |-> None] }

\* the <entry> elements of an Atom feed: the stripped text of arxiv:doi, of
\* id and of published, and the rel=alternate link element, <<>> when the
\* entry has none, else <<attrib>> with the href attribute or None
ArxivEntries == {
    [doi |-> None, link |-> <<[href |-> Str("http://arxiv.org/abs/1")]>>,
     id |-> Str("http://arxiv.org/abs/1v1"), published |-> Str("2020-05-01T00:00:00Z")],
    [doi |-> Str("10.1/A"), link |-> <<>>,
     id |-> Str("http://arxiv.org/abs/2v1"), published |-> Str("2018-01-01T00:00:00Z")],
    [doi |-> None, link |-> <<>>, id |-> None, published |-> None],
    [doi |-> None, link |-> <<[href |-> None]>>,
     id |-> Str("http://arxiv.org/abs/5v1"), published |-> Str("2017")] }

\* the <PubmedArticle> elements: the ArticleId list, the text of Year, and
\* the first PMID element, <<>> when the article has none, else <<text>>
\* with the text None for an empty element
PubmedArticles == {
    [ArticleIdList |-> <<[IdType |-> "pubmed", text |-> Str("11")],
                         [IdType |-> "doi", text |-> Str("10.1/a")],
                         [IdType |-> "doi", text |-> Str("10.9/z")]>>,
     PMID |-> <<Str("11")>>, Year |-> Str("2020")],
    [ArticleIdList |-> <<>>, PMID |-> <<>>, Year |-> None],
    [ArticleIdList |-> <<[IdType |-> "doi", text |-> Str("10.4/d")]>>,
     PMID |-> <<Str("22")>>, Year |-> None],
    [ArticleIdList |-> <<>>, PMID |-> <<None>>, Year |-> Str("2003")] }

PubmedIds == {"11", "22"}

---------------------------------------------------------------------------
\* The extractors: one provider item to one compact record.

\* a or b
Or(a, b) == IF Truthy(a) THEN a ELSE b

springer_record(x) ==
    LET url_item == IF x.url # <<>> THEN x.url[1] ELSE [none |-> None]
    IN  [doi |-> _norm_doi(x.doi),
         url |-> IF "value" \in DOMAIN url_item THEN url_item.value ELSE None,
         date |-> Or(x.publicationDate, x.onlineDate),
         source |-> "springer_openaccess"]

\* the exception of ymd leaves the loop: no record is built
crossref_record(it) ==
    IF IsRaise(ymd(it)) THEN ymd(it)
    ELSE [doi |-> _norm_doi(it.DOI), url |-> it.URL, date |-> ymd(it), source |-> "crossref"]

\* the last identifier of type doi wins
RECURSIVE doaj_doi(_, _)
doaj_doi(identifier, doi) ==
    IF identifier = <<>> THEN doi
    ELSE doaj_doi(Tail(identifier),
                  IF identifier[1].type = "doi" THEN identifier[1].id ELSE doi)

doaj_record(h) ==
    LET bib == h.bibjson
    IN  [doi |-> _norm_doi(doaj_doi(bib.identifier, None)),
         url |-> IF bib.link # <<>> THEN bib.link[1].url ELSE None,
         date |-> bib.year,
         source |-> "doaj"]

openalex_record(w) ==
    LET loc(k) == IF w.primary_location = None THEN None ELSE w.primary_location[k]
        id(k) == IF w.ids = None THEN None ELSE w.ids[k]
    IN  [doi |-> _norm_doi(id("doi")),
         url |-> Or(Or(loc("landing_page_url"), id("openalex")), loc("pdf_url")),
         date |-> w.publication_year,
         source |-> "openalex"]

arxiv_record(e) ==
    [doi |-> _norm_doi(e.doi),
     url |-> IF e.link # <<>> THEN e.link[1].href ELSE Or(e.id, e.id),
     date |-> e.published,
     source |-> "arxiv"]

\* the first ArticleId of type doi wins
RECURSIVE pubmed_doi(_)
pubmed_doi(ArticleIdList) ==
    IF ArticleIdList = <<>> THEN None
    ELSE IF ArticleIdList[1].IdType = "doi" THEN ArticleIdList[1].text
    ELSE pubmed_doi(Tail(ArticleIdList))

pubmed_record(art) ==
    [doi |-> _norm_doi(pubmed_doi(art.ArticleIdList)),
     url |-> IF art.PMID # <<>>
             THEN Str("https://pubmed.ncbi.nlm.nih.gov/"
                      \o (IF art.PMID[1] = None THEN "None" ELSE art.PMID[1][1]) \o "/")
             ELSE None,
     date |-> art.Year,
     source |-> "pubmed"]

\* [f(x) for x in items]
_compact_springer_out(recs) == [i \in 1..Len(recs) |-> springer_record(recs[i])]
_compact_crossref_out(items) ==
    IF \E i \in 1..Len(items) : IsRaise(ymd(items[i])) THEN Raise("AttributeError")
    ELSE [i \in 1..Len(items) |-> crossref_record(items[i])]
_compact_doaj_out(hits) == [i \in 1..Len(hits) |-> doaj_record(hits[i])]
_compact_openalex_out(res) == [i \in 1..Len(res) |-> openalex_record(res[i])]
_compact_arxiv_out(entries) == [i \in 1..Len(entries) |-> arxiv_record(entries[i])]
_compact_pubmed_out(arts) == [i \in 1..Len(arts) |-> pubmed_record(arts[i])]

---------------------------------------------------------------------------
\* The de-duplication pass and the sort of search_compact, source=all.

\* the URL is trimmed but keeps its case
norm_url_no_lower(it) ==
    LET u == strip(IF Truthy(it.url) THEN it.url[1] ELSE "")
    IN  IF u = "" THEN None ELSE Str(u)

\* (it.get("url") or "").strip().lower() or None
norm_url(it) ==
    LET u == lower(strip(IF Truthy(it.url) THEN it.url[1] ELSE ""))
    IN  IF u = "" THEN None ELSE Str(u)

\* a DOI seen before is replaced by its last record
dedup_step_keeps_last(st, it) ==
    LET doi == _norm_doi(it.doi)
        url == norm_url(it)
        others == SelectSeq(st.dedup, LAMBDA r : _norm_doi(r.doi) # doi)
    IN  IF Truthy(doi)
        THEN [st EXCEPT !.seen_doi = @ \cup {doi}, !.dedup = Append(others, it)]
        ELSE IF Truthy(url) /\ url \in st.seen_url THEN st
             ELSE [st EXCEPT !.seen_url = IF Truthy(url) THEN @ \cup {url} ELSE @,
                             !.dedup = Append(@, it)]

\* one iteration of the loop over agg
dedup_step(st, it) ==
    LET doi == _norm_doi(it.doi)
        url == norm_url(it)
    IN  IF Truthy(doi)
        THEN IF doi \in st.seen_doi THEN st
             ELSE [st EXCEPT !.seen_doi = @ \cup {doi}, !.dedup = Append(@, it)]
        ELSE IF Truthy(url) /\ url \in st.seen_url THEN st
             ELSE [st EXCEPT !.seen_url = IF Truthy(url) THEN @ \cup {url} ELSE @,
                             !.dedup = Append(@, it)]

RECURSIVE dedup_loop(_, _)
dedup_loop(st, items) ==
    IF items = <<>> THEN st ELSE dedup_loop(dedup_step(st, items[1]), Tail(items))

dedup_of(items) == dedup_loop([seen_doi |-> {}, seen_url |-> {}, dedup |-> <<>>], items).dedup

\* the sort key: (x.get("doi") is None, str(x.get("date") or ""))
sort_key(x) ==
    <<x.doi = None,
      IF ~Truthy(x.date) THEN "" ELSE IF IsInt(x.date) THEN str(x.date[2]) ELSE x.date[1]>>

\* k1 < k2 for (bool, str) tuples: False < True, then the strings
key_less(k1, k2) ==
    \/ (~k1[1] /\ k2[1])
    \/ (k1[1] = k2[1] /\ StrLess(k1[2], k2[2]))

\* x put after every element whose key is not greater than its own
sort_insert(sorted, x) ==
    LET later == {i \in 1..Len(sorted) : key_less(sort_key(x), sort_key(sorted[i]))}
        at == IF later = {} THEN Len(sorted) + 1
              ELSE CHOOSE i \in later : \A j \in later : i <= j
    IN  SubSeq(sorted, 1, at - 1) \o <<x>> \o SubSeq(sorted, at, Len(sorted))

\* list.sort(key=...): the stable sort
RECURSIVE sort_loop(_, _)
sort_loop(sorted, items) ==
    IF items = <<>> THEN sorted ELSE sort_loop(sort_insert(sorted, items[1]), Tail(items))

sort(items) == sort_loop(<<>>, items)

---------------------------------------------------------------------------
\* The request handlers.  One request is served per behaviour: the handlers
\* share no state between requests.  A handler is cut at its upstream calls:
\* one action issues a call, receives the response and runs the code up to
\* the next call or to the return.

Sources == {"springer", "crossref", "doaj", "openalex", "arxiv", "pubmed", "all"}

Requests == [endpoint : {"search", "compact"}, source : Sources \cup {"scopus"},
             q : {"tetracycline"}]

\* the status codes an upstream answers with
Statuses == {200, 204, 404}

\* r.text[:1000] of an upstream answer that is not a 200
ErrorText == "upstream error body"

Call(api, arg, status) == [api |-> api, arg |-> arg, status |-> status]
HTTPException(status_code, detail) == [status |-> status_code, detail |-> detail]
Ok200(body) == [status |-> 200, body |-> body]

RECURSIVE OutSize(_)
OutSize(keys) ==
    IF keys = {} THEN 0
    ELSE LET k == CHOOSE x \in keys : TRUE
             n == IF k \in {"arxiv_xml", "pubmed_xml"}
                  THEN (IF out[k] = None THEN 0 ELSE Len(out[k][1]))
                  ELSE Len(out[k])
         IN  n + OutSize(keys \ {k})

\* how many more provider items this request may still receive
Room == MaxAgg - Len(agg) - OutSize(DOMAIN out)

Init ==
    /\ SPRINGER \in {None, Str(""), Str("key")}
    /\ req \in Requests
    /\ pc = "dispatch"
    /\ calls = <<>>
    /\ agg = <<>>
    /\ out = <<>>
    /\ ids = <<>>
    /\ resp = None
    /\ fn_pc = "idle"
    /\ norm_in = None
    /\ norm_once = None
    /\ norm_twice = None
    /\ ymd_in = None
    /\ ymd_out = None

Finish(body) == pc' = "done" /\ resp' = Ok200(body)
Abort(status_code, detail) == pc' = "done" /\ resp' = HTTPException(status_code, detail)
\* an exception that is no HTTPException leaves the handler
Propagate(e) == pc' = "done" /\ resp' = [raised |-> e]

\* the if / elif chain on source of search and of search_compact
dispatch ==
    /\ pc = "dispatch"
    /\ IF req.source \in {"springer", "crossref", "doaj", "openalex", "arxiv"}
       THEN pc' = req.source /\ resp' = resp
       ELSE IF req.source = "pubmed" THEN pc' = "pubmed_esearch" /\ resp' = resp
       ELSE IF req.source = "all" THEN pc' = "springer" /\ resp' = resp
       ELSE Abort(400, "unknown source")
    /\ UNCHANGED <<SPRINGER, req, calls, agg, out, ids>>
    /\ UNCHANGED fnVars

\* _ok accepts every status below 400
ok_raises_from_400(status_code) == status_code >= 400

\* _ok raises unless the status is 200
_ok_raises(status_code) == status_code # 200

\* the key test misses the empty string
key_missing_only_none == SPRINGER = None

\* fetch_springer_oa raises before the call unless the key is set
fetch_springer_oa_raises == ~Truthy(SPRINGER)

\* the arXiv failure is swallowed
arxiv_never_raises(status_code) == FALSE

\* _compact_arxiv raises unless the status is 200
_compact_arxiv_raises(status_code) == status_code # 200

\* _compact_pubmed raises unless the efetch status is 200
_compact_pubmed_raises(status_code) == status_code # 200

\* the empty idlist is not noticed
no_ids_never(idlist) == FALSE

\* _compact_pubmed: "if not ids: return []"
_compact_pubmed_no_ids(idlist) == idlist = <<>>

\* the legs of source=all in call order, and the leg after each
NextLeg(leg) ==
    CASE leg = "springer" -> "crossref"
      [] leg = "crossref" -> "doaj"
      [] leg = "doaj" -> "openalex"
      [] leg = "openalex" -> "arxiv"
      [] leg = "arxiv" -> "pubmed_esearch"

\* js = _ok(fetch_X(q)) and the loop of a JSON extractor, then either the
\* return of the single-source request or the next agg += of source=all
compact_json(leg, Outs) ==
    /\ pc = leg
    /\ req.endpoint = "compact"
    /\ \E status \in Statuses :
        /\ calls' = Append(calls, Call(leg, req.q, status))
        /\ IF _ok_raises(status)
           THEN Abort(status, ErrorText) /\ agg' = agg
           ELSE \E records \in Outs :
                    /\ agg' = agg \o records
                    /\ IF req.source = "all"
                       THEN pc' = NextLeg(leg) /\ resp' = resp
                       ELSE Finish(agg')
    /\ UNCHANGED <<SPRINGER, req, out, ids>>
    /\ UNCHANGED fnVars

_compact_springer ==
    IF fetch_springer_oa_raises
    THEN /\ pc = "springer"
         /\ req.endpoint = "compact"
         /\ Abort(500, "SPRINGER_API_KEY missing")
         /\ UNCHANGED <<SPRINGER, req, calls, agg, out, ids>>
         /\ UNCHANGED fnVars
    ELSE compact_json("springer", {_compact_springer_out(recs) : recs \in SeqsUpTo(SpringerItems, Room)})

\* as compact_json, but ymd raises on an item whose issued is null
_compact_crossref ==
    /\ pc = "crossref"
    /\ req.endpoint = "compact"
    /\ \E status \in Statuses :
        /\ calls' = Append(calls, Call("crossref", req.q, status))
        /\ IF _ok_raises(status)
           THEN Abort(status, ErrorText) /\ agg' = agg
           ELSE \E items \in SeqsUpTo(CrossrefItems, Room) :
                    IF \E i \in 1..Len(items) : IsRaise(ymd(items[i]))
                    THEN Propagate(_compact_crossref_out(items)[2]) /\ agg' = agg
                    ELSE /\ agg' = agg \o _compact_crossref_out(items)
                         /\ IF req.source = "all"
                            THEN pc' = NextLeg("crossref") /\ resp' = resp
                            ELSE Finish(agg')
    /\ UNCHANGED <<SPRINGER, req, out, ids>>
    /\ UNCHANGED fnVars

_compact_doaj ==
    compact_json("doaj", {_compact_doaj_out(hits) : hits \in SeqsUpTo(DoajItems, Room)})

_compact_openalex ==
    compact_json("openalex", {_compact_openalex_out(res) : res \in SeqsUpTo(OpenalexItems, Room)})

_compact_arxiv ==
    /\ pc = "arxiv"
    /\ req.endpoint = "compact"
    /\ \E status \in Statuses :
        /\ calls' = Append(calls, Call("arxiv", req.q, status))
        /\ IF _compact_arxiv_raises(status)
           THEN Abort(status, ErrorText) /\ agg' = agg
           ELSE \E entries \in SeqsUpTo(ArxivEntries, Room) :
                    /\ agg' = agg \o _compact_arxiv_out(entries)
                    /\ IF req.source = "all"
                       THEN pc' = NextLeg("arxiv") /\ resp' = resp
                       ELSE Finish(agg')
    /\ UNCHANGED <<SPRINGER, req, out, ids>>
    /\ UNCHANGED fnVars

\* the return value of search_compact once _compact_pubmed has returned:
\* its own list for source=pubmed, the de-duplicated sorted agg for source=all
compact_return(records) ==
    IF req.source = "all" THEN Finish(sort(dedup_of(agg \o records)))
    ELSE Finish(records)

\* _compact_pubmed up to the efetch call
_compact_pubmed_esearch ==
    /\ pc = "pubmed_esearch"
    /\ req.endpoint = "compact"
    /\ \E status \in Statuses :
        /\ calls' = Append(calls, Call("pubmed_esearch", req.q, status))
        /\ IF _ok_raises(status)
           THEN Abort(status, ErrorText) /\ ids' = ids
           ELSE \E idlist \in SeqsUpTo(PubmedIds, MaxIds) :
                    /\ ids' = idlist
                    /\ IF _compact_pubmed_no_ids(idlist)
                       THEN compact_return(<<>>)
                       ELSE pc' = "pubmed_efetch" /\ resp' = resp
    /\ UNCHANGED <<SPRINGER, req, agg, out>>
    /\ UNCHANGED fnVars

\* _compact_pubmed from the efetch call on
_compact_pubmed_efetch ==
    /\ pc = "pubmed_efetch"
    /\ req.endpoint = "compact"
    /\ \E status \in Statuses :
        /\ calls' = Append(calls, Call("pubmed_efetch", join(",", ids), status))
        /\ IF _compact_pubmed_raises(status)
           THEN Abort(status, ErrorText) /\ agg' = agg
           ELSE \E arts \in SeqsUpTo(PubmedArticles, Room) :
                    /\ agg' = agg \o _compact_pubmed_out(arts)
                    /\ compact_return(_compact_pubmed_out(arts))
    /\ UNCHANGED <<SPRINGER, req, out, ids>>
    /\ UNCHANGED fnVars

\* the "json" of the four JSON providers, by leg
JsonItems(leg) ==
    CASE leg = "springer" -> SpringerItems
      [] leg = "crossref" -> CrossrefItems
      [] leg = "doaj" -> DoajItems
      [] leg = "openalex" -> OpenalexItems

\* search: _ok(fetch_X(q)) for springer, crossref, doaj and openalex, as the
\* whole answer of a single-source request or as one entry of the dict of
\* source=all
search_json ==
    /\ pc \in {"springer", "crossref", "doaj", "openalex"}
    /\ req.endpoint = "search"
    /\ IF pc = "springer" /\ fetch_springer_oa_raises
       THEN /\ Abort(500, "SPRINGER_API_KEY missing")
            /\ UNCHANGED <<calls, out>>
       ELSE \E status \in Statuses :
            /\ calls' = Append(calls, Call(pc, req.q, status))
            /\ IF _ok_raises(status)
               THEN Abort(status, ErrorText) /\ out' = out
               ELSE \E items \in SeqsUpTo(JsonItems(pc), Room) :
                        IF req.source = "all"
                        THEN /\ out' = out @@ (pc :> items)
                             /\ pc' = NextLeg(pc)
                             /\ resp' = resp
                        ELSE /\ out' = out
                             /\ Finish(items)
    /\ UNCHANGED <<SPRINGER, req, agg, ids>>
    /\ UNCHANGED fnVars

\* search: the arXiv call; source=all keeps None for a failed call
search_arxiv ==
    /\ pc = "arxiv"
    /\ req.endpoint = "search"
    /\ \E status \in Statuses :
        /\ calls' = Append(calls, Call("arxiv", req.q, status))
        /\ IF status # 200
           THEN IF req.source = "all"
                THEN /\ out' = out @@ ("arxiv_xml" :> None)
                     /\ pc' = "pubmed_esearch"
                     /\ resp' = resp
                ELSE Abort(status, ErrorText) /\ out' = out
           ELSE \E entries \in SeqsUpTo(ArxivEntries, Room) :
                    IF req.source = "all"
                    THEN /\ out' = out @@ ("arxiv_xml" :> <<entries>>)
                         /\ pc' = "pubmed_esearch"
                         /\ resp' = resp
                    ELSE /\ out' = out
                         /\ Finish([xml |-> entries])
    /\ UNCHANGED <<SPRINGER, req, agg, ids>>
    /\ UNCHANGED fnVars

\* search: the PubMed esearch call, through _ok for source=pubmed and for
\* source=all alike
search_pubmed_esearch ==
    /\ pc = "pubmed_esearch"
    /\ req.endpoint = "search"
    /\ \E status \in Statuses :
        /\ calls' = Append(calls, Call("pubmed_esearch", req.q, status))
        /\ IF _ok_raises(status)
           THEN Abort(status, ErrorText) /\ out' = out /\ ids' = ids
           ELSE \E idlist \in SeqsUpTo(PubmedIds, MaxIds) :
                    /\ ids' = idlist
                    /\ IF join(",", idlist) = ""
                       THEN IF req.source = "all"
                            THEN /\ out' = out @@ ("pubmed_xml" :> None)
                                 /\ Finish(out')
                            ELSE /\ out' = out
                                 /\ Finish([ids |-> <<>>])
                       ELSE /\ out' = out
                            /\ pc' = "pubmed_efetch"
                            /\ resp' = resp
    /\ UNCHANGED <<SPRINGER, req, agg>>
    /\ UNCHANGED fnVars

\* search: the PubMed efetch call; source=all keeps None for a failed call
search_pubmed_efetch ==
    /\ pc = "pubmed_efetch"
    /\ req.endpoint = "search"
    /\ \E status \in Statuses :
        /\ calls' = Append(calls, Call("pubmed_efetch", join(",", ids), status))
        /\ IF status # 200
           THEN IF req.source = "all"
                THEN /\ out' = out @@ ("pubmed_xml" :> None)
                     /\ Finish(out')
                ELSE Abort(status, ErrorText) /\ out' = out
           ELSE \E arts \in SeqsUpTo(PubmedArticles, Room) :
                    IF req.source = "all"
                    THEN /\ out' = out @@ ("pubmed_xml" :> <<arts>>)
                         /\ Finish(out')
                    ELSE /\ out' = out
                         /\ Finish([xml |-> arts])
    /\ UNCHANGED <<SPRINGER, req, agg, ids>>
    /\ UNCHANGED fnVars

Next ==
    \/ dispatch
    \/ _compact_springer
    \/ _compact_crossref
    \/ _compact_doaj
    \/ _compact_openalex
    \/ _compact_arxiv
    \/ _compact_pubmed_esearch
    \/ _compact_pubmed_efetch
    \/ search_json
    \/ search_arxiv
    \/ search_pubmed_esearch
    \/ search_pubmed_efetch

Spec == Init /\ [][Next]_vars

---------------------------------------------------------------------------
\* Claims about search_compact with source=all.

\* search_compact, source=all, has returned its list: agg is the aggregated
\* sequence and resp.body the list returned
CompactAllReturned ==
    /\ pc = "done"
    /\ req.endpoint = "compact"
    /\ req.source = "all"
    /\ "body" \in DOMAIN resp

\* the canonical DOI of a record, the identity key of the de-duplication;
\* a record whose key is None or empty has no DOI
CanonDoi(r) == _norm_doi(r.doi)
HasDoi(r) == Truthy(CanonDoi(r))

\* the URL of a record trimmed and lower-cased, "" when it has none
UrlKey(r) == IF r.url = None THEN "" ELSE lower(strip(r.url[1]))

SourceRank(src) ==
    CASE src = "springer_openaccess" -> 1
      [] src = "crossref" -> 2
      [] src = "doaj" -> 3
      [] src = "openalex" -> 4
      [] src = "arxiv" -> 5
      [] src = "pubmed" -> 6

Count(list, r) == Cardinality({k \in 1..Len(list) : list[k] = r})

\* C1: the aggregated sequence is in the order springer, crossref, doaj,
\* openalex, arxiv, pubmed; of the records that share a canonical DOI the
\* output holds exactly one, the first encountered, whatever the sources of
\* the later ones.
C1_FirstDoiKept ==
    CompactAllReturned =>
        /\ \A i, j \in 1..Len(agg) : i < j => SourceRank(agg[i].source) <= SourceRank(agg[j].source)
        /\ \A k \in 1..Len(resp.body) : \E i \in 1..Len(agg) : agg[i] = resp.body[k]
        /\ \A i \in 1..Len(agg) : HasDoi(agg[i]) =>
              LET same == {j \in 1..Len(agg) : CanonDoi(agg[j]) = CanonDoi(agg[i])}
                  first == CHOOSE j \in same : \A m \in same : j <= m
                  hits == {k \in 1..Len(resp.body) : CanonDoi(resp.body[k]) = CanonDoi(agg[i])}
              IN  /\ Cardinality(hits) = 1
                  /\ \A k \in hits : resp.body[k] = agg[first]

\* a Springer record and a later Crossref record share a canonical DOI that
\* the providers wrote differently, and only the Springer record is returned
C1_Witness ==
    /\ CompactAllReturned
    /\ \E i, j \in 1..Len(agg) :
          /\ i < j
          /\ agg[i].source = "springer_openaccess"
          /\ agg[j].source = "crossref"
          /\ HasDoi(agg[i])
          /\ CanonDoi(agg[i]) = CanonDoi(agg[j])
          /\ Count(resp.body, agg[i]) = 1
          /\ Count(resp.body, agg[j]) = 0

\* the record at position i of agg is dropped as a URL duplicate
UrlDuplicate(i) ==
    /\ UrlKey(agg[i]) # ""
    /\ \E j \in 1..(i - 1) : ~HasDoi(agg[j]) /\ UrlKey(agg[j]) = UrlKey(agg[i])

\* C2: a record without DOI is dropped exactly when it has a URL that,
\* trimmed and lower-cased, equals that of an earlier record without DOI;
\* so the first of several such records is kept, and the records with
\* neither DOI nor URL are all kept.
C2_UrlDedup ==
    CompactAllReturned =>
        /\ \A k \in 1..Len(resp.body) : \E i \in 1..Len(agg) : agg[i] = resp.body[k]
        /\ \A i \in 1..Len(agg) : ~HasDoi(agg[i]) =>
              Count(resp.body, agg[i]) =
                  Cardinality({j \in 1..Len(agg) : agg[j] = agg[i] /\ ~UrlDuplicate(j)})

\* "HTTP://X.org/Paper " then "http://x.org/paper", both without DOI: the
\* second is dropped; and two records with neither DOI nor URL are both kept
C2_Witness ==
    /\ CompactAllReturned
    /\ \E i, j \in 1..Len(agg) :
          /\ i < j
          /\ ~HasDoi(agg[i]) /\ agg[i].url = Str("HTTP://X.org/Paper ")
          /\ ~HasDoi(agg[j]) /\ agg[j].url = Str("http://x.org/paper")
          /\ Count(resp.body, agg[i]) = 1
          /\ Count(resp.body, agg[j]) = 0
    /\ \E i \in 1..Len(agg) :
          /\ ~HasDoi(agg[i]) /\ agg[i].url = None
          /\ Count(resp.body, agg[i]) = 1

\* the date of a record coerced to text, the null date to ""
DateText(r) ==
    IF r.date = None THEN "" ELSE IF IsInt(r.date) THEN str(r.date[2]) ELSE r.date[1]

\* the position in agg of the record that the de-duplication kept as r
FirstAt(r) == CHOOSE i \in 1..Len(agg) : agg[i] = r /\ \A j \in 1..(i - 1) : agg[j] # r

\* C3: every DOI-bearing record precedes every record without DOI; within
\* each group the records ascend by the text of their date, null first;
\* equal keys keep their encounter order.
C3_AsClaimed ==
    CompactAllReturned =>
        \A k, l \in 1..Len(resp.body) : k < l =>
            LET x == resp.body[k]
                y == resp.body[l]
            IN  /\ ~(~HasDoi(x) /\ HasDoi(y))
                /\ (HasDoi(x) = HasDoi(y)) => ~StrLess(DateText(y), DateText(x))
                /\ (HasDoi(x) = HasDoi(y) /\ DateText(x) = DateText(y) /\ x # y)
                       => FirstAt(x) < FirstAt(y)

---------------------------------------------------------------------------
\* Claims about the upstream calls.

JsonLegs == {"springer", "crossref", "doaj", "openalex"}
XmlLegs == {"arxiv", "pubmed_esearch", "pubmed_efetch"}
CallOrder == <<"springer", "crossref", "doaj", "openalex", "arxiv", "pubmed_esearch", "pubmed_efetch">>

CompactAll == req.endpoint = "compact" /\ req.source = "all"
RawAll == req.endpoint = "search" /\ req.source = "all"

\* the request was aborted with the status of its last upstream call
AbortedBy(i) ==
    /\ i = Len(calls)
    /\ pc = "done"
    /\ resp = HTTPException(calls[i].status, ErrorText)

\* C5 as stated: in search_compact with source=all a non-200 answer of arXiv
\* or PubMed does not abort the request, which returns its list without a
\* record of that source.
C5_AsClaimed ==
    (CompactAll /\ pc = "done" /\ \E i \in 1..Len(calls) : calls[i].api \in XmlLegs /\ calls[i].status # 200)
        => /\ "body" \in DOMAIN resp
           /\ \A k \in 1..Len(resp.body) :
                  /\ (\E i \in 1..Len(calls) : calls[i].api = "arxiv" /\ calls[i].status # 200)
                         => resp.body[k].source # "arxiv"
                  /\ (\E i \in 1..Len(calls) : calls[i].api # "arxiv" /\ calls[i].api \in XmlLegs /\ calls[i].status # 200)
                         => resp.body[k].source # "pubmed"

\* C5: in search_compact with source=all a non-200 answer of arXiv, of the
\* PubMed esearch or of the PubMed efetch aborts the request with that
\* status and no list is returned. Only /search with source=all degrades:
\* a non-200 arXiv answer gives arxiv_xml None and the PubMed esearch is
\* still attempted, and a non-200 efetch answer gives pubmed_xml None in a
\* 200 response.
C5_XmlLegFailure ==
    \A i \in 1..Len(calls) : (calls[i].api \in XmlLegs /\ calls[i].status # 200) =>
        /\ CompactAll => AbortedBy(i)
        /\ (RawAll /\ calls[i].api = "arxiv") =>
               /\ out.arxiv_xml = None
               /\ pc = "pubmed_esearch" \/ (Len(calls) > i /\ calls[i + 1].api = "pubmed_esearch")
        /\ (RawAll /\ calls[i].api = "pubmed_efetch") =>
               /\ pc = "done"
               /\ "body" \in DOMAIN resp
               /\ resp.body.pubmed_xml = None

\* the four JSON sources delivered records, arXiv answered 404, and the
\* compact request ended with 404 instead of the records
C5_Witness ==
    /\ CompactAll
    /\ pc = "done"
    /\ Len(calls) = 5
    /\ calls[5].api = "arxiv"
    /\ calls[5].status = 404
    /\ Len(agg) > 0
    /\ resp = HTTPException(404, ErrorText)

\* C8: without a Springer API key a request for source springer or all
\* ends with status 500 and detail "SPRINGER_API_KEY missing", and no
\* upstream call is made, Springer or other.
C8_KeyMissing ==
    (~Truthy(SPRINGER) /\ req.source \in {"springer", "all"}) =>
        /\ calls = <<>>
        /\ pc \in {"dispatch", "springer", "done"}
        /\ pc = "done" => resp = HTTPException(500, "SPRINGER_API_KEY missing")

\* the key is set to the empty string and source=all ended with the 500
C8_Witness ==
    /\ SPRINGER = Str("")
    /\ req.source = "all"
    /\ pc = "done"
    /\ calls = <<>>
    /\ resp = HTTPException(500, "SPRINGER_API_KEY missing")

\* C9: in search_compact an efetch call directly follows an esearch call
\* answered 200 with a non-empty idlist, whose ids it posts joined by
\* commas; after an esearch answered 200 with an empty idlist the request
\* is over without efetch, and PubMed has contributed no record.
C9_EfetchAfterEsearch ==
    req.endpoint = "compact" =>
        /\ \A i \in 1..Len(calls) : calls[i].api = "pubmed_efetch" =>
              /\ i > 1
              /\ calls[i - 1].api = "pubmed_esearch"
              /\ calls[i - 1].status = 200
              /\ ids # <<>>
              /\ calls[i].arg = join(",", ids)
        /\ \A i \in 1..Len(calls) :
              (calls[i].api = "pubmed_esearch" /\ calls[i].status = 200 /\ ids = <<>> /\ pc # "pubmed_efetch") =>
                  /\ i = Len(calls)
                  /\ pc = "done"
                  /\ "body" \in DOMAIN resp
                  /\ \A k \in 1..Len(resp.body) : resp.body[k].source # "pubmed"
                  /\ req.source = "pubmed" => resp.body = <<>>

\* source=all: esearch answered 200 with no ids, no efetch followed and the
\* records of the other sources were returned
C9_Witness ==
    /\ CompactAll
    /\ pc = "done"
    /\ Len(calls) = 6
    /\ calls[6].api = "pubmed_esearch"
    /\ calls[6].status = 200
    /\ ids = <<>>
    /\ "body" \in DOMAIN resp
    /\ Len(resp.body) > 0

\* C10: search_compact with source=all calls the sources in the order
\* springer, crossref, doaj, openalex, arxiv, pubmed; a non-200 answer of one
\* of the four JSON sources is the last call made, and the request ends
\* with that status and without records, whatever was aggregated before.
C10_SequentialJsonAbort ==
    CompactAll =>
        /\ Len(calls) <= Len(CallOrder)
        /\ \A i \in 1..Len(calls) : calls[i].api = CallOrder[i]
        /\ \A i \in 1..Len(calls) :
              (calls[i].api \in JsonLegs /\ calls[i].status # 200) => AbortedBy(i)

\* Springer and Crossref delivered records, DOAJ answered 204, and the
\* request ended with 204 after three calls
C10_Witness ==
    /\ CompactAll
    /\ pc = "done"
    /\ Len(calls) = 3
    /\ calls[3].api = "doaj"
    /\ calls[3].status = 204
    /\ Len(agg) > 0
    /\ resp = HTTPException(204, ErrorText)

=============================================================================
